---- MODULE Spec2Model ----
(***************************************************************************)
(* Azure DevOps PR Review Analyzer (src/main.py): the pipeline of main()   *)
(* as a state machine.  One action per step of main(): get_repo_map, the   *)
(* head of the repository loop, one request of get_all_prs, one pass of    *)
(* the reviewer-entry loop body, the report (Excel workbook) and the chart.*)
(*                                                                         *)
(* JSON objects are functions from keys (strings) to values, so that       *)
(* dict.get(key, default) distinguishes a missing key from a null value.   *)
(* Python strings that the code formats or compares (strftime output,      *)
(* --from / --to) are sequences of character codes, compared as Python     *)
(* compares strings (lexicographically).                                   *)
(***************************************************************************)
EXTENDS Integers, Sequences, FiniteSets, TLC

\* ------------------------------------------------------------------ bounds
\* most reviewer entries the data source holds over one run (all repositories)
MaxEntries == 2
\* most pull requests the data source holds over one run (all repositories)
MaxPRs == 1
\* most pull requests of the repository in the pagination runs (SpecPages)
MaxN == 201

\* ------------------------------------------------------- program constants
\* page size of get_all_prs
top == 100

\* JSON null / Python None where a string is expected
None == "<None>"
\* a datetime that is None (parse_date's soft failure)
NoDate == <<>>

\* ----------------------------------------------------------------- helpers
\* dict.get(key, default)
Get(d, k, default) == IF k \in DOMAIN d THEN d[k] ELSE default

\* str.lower() on the identities of the runs
Lower(s) ==
    CASE s = "ALICE" -> "alice"
      [] s = "Alice" -> "alice"
      [] s = "Bob"   -> "bob"
      [] s = "bob"   -> "bob"
      [] s = "Eve"   -> "eve"
      [] OTHER       -> s

\* date_str.replace("Z", "")
StripZ(s) ==
    CASE s = "2024-01-10T09:30:00Z" -> "2024-01-10T09:30:00"
      [] s = "2024-02-21T00:00:00Z" -> "2024-02-21T00:00:00"
      [] s = "2024-02-20T23:59:59Z" -> "2024-02-20T23:59:59"
      [] OTHER -> s

\* the ValueError datetime.fromisoformat raises, as a value
ValueError == <<-1>>

\* datetime.fromisoformat: <<year, month, day, hour, minute, second>>, or
\* ValueError for a string that is no ISO timestamp
fromisoformat(s) ==
    CASE s = "2024-01-10T09:30:00" -> <<2024, 1, 10, 9, 30, 0>>
      [] s = "2024-02-21T00:00:00" -> <<2024, 2, 21, 0, 0, 0>>
      [] s = "2024-02-20T23:59:59" -> <<2024, 2, 20, 23, 59, 59>>
      [] s = "2024-01-09T23:59:59" -> <<2024, 1, 9, 23, 59, 59>>
      [] OTHER -> ValueError

parse_date(date_str) ==
    IF date_str = None \/ date_str = ""
    THEN NoDate
    ELSE LET d == fromisoformat(StripZ(date_str))
         IN  IF d = ValueError THEN NoDate ELSE d

\* strftime's %m and %d: two digits, zero-padded, as character codes
Pad2(n) == <<48 + (n \div 10), 48 + (n % 10)>>

\* strftime's %Y (CPython on glibc): the year's decimal digits, with no
\* padding, so a year below 1000 has fewer than four characters
RECURSIVE strftime_Y(_)
strftime_Y(n) ==
    IF n < 10 THEN <<48 + n>> ELSE strftime_Y(n \div 10) \o <<48 + (n % 10)>>

\* date.strftime("%Y-%m-%d") and date.strftime("%Y-%m")
strftime_Ymd(date) ==
    strftime_Y(date[1]) \o <<45>> \o Pad2(date[2]) \o <<45>> \o Pad2(date[3])
strftime_Ym(date) == strftime_Y(date[1]) \o <<45>> \o Pad2(date[2])

\* Python's a <= b on strings
RECURSIVE StrLeq(_, _)
StrLeq(a, b) ==
    IF a = <<>> THEN TRUE
    ELSE IF b = <<>> THEN FALSE
    ELSE IF Head(a) < Head(b) THEN TRUE
    ELSE IF Head(a) > Head(b) THEN FALSE
    ELSE StrLeq(Tail(a), Tail(b))

\* a faulty variant of date_in_range: the upper end of the range is not checked
date_in_range_no_end(date, start, end) ==
    IF date = NoDate THEN FALSE
    ELSE StrLeq(start, strftime_Ymd(date))

date_in_range(date, start, end) ==
    IF date = NoDate THEN FALSE
    ELSE StrLeq(start, strftime_Ymd(date)) /\ StrLeq(strftime_Ymd(date), end)

\* -------------------------------------------------------- the run's inputs
\* --reviewers, --repos, --from, --to as given on the command line
args_reviewers == <<"ALICE", "Bob">>
args_repos == <<"r1", "r2">>
\* "2024-01-10"
args_start == <<50, 48, 50, 52, 45, 48, 49, 45, 49, 48>>
\* "2024-02-20"
args_end == <<50, 48, 50, 52, 45, 48, 50, 45, 50, 48>>
DateModes == {"creation", "review"}

\* AZURE_DEVOPS_PAT: unset (None), set but empty, or a token
PATs == {None, "", "token"}

\* HTTP statuses the data source answers with
Statuses == {200, 500}
\* what the body of an answer is: JSON with a "value" list, JSON without
\* one, or not JSON at all
Bodies == {"value", "no_value", "not_json"}

\* answers of listRepositories
RepoListings ==
    { <<>>,
      << [name |-> "other", id |-> "id-other"] >>,
      << [name |-> "other", id |-> "id-other"], [name |-> "r2", id |-> "id-r2"],
         [name |-> "r1", id |-> "id-r1"] >> }

TsIn == "2024-01-10T09:30:00Z"
TsOut == "2024-02-21T00:00:00Z"
CreatedIn == "2024-02-20T23:59:59Z"
CreatedOut == "2024-01-09T23:59:59"

\* reviewer entries of the runs, as the API returns them
ReviewerPool ==
    { [uniqueName |-> "Alice", vote |-> 10, reviewedDate |-> TsIn],
      [uniqueName |-> "bob", vote |-> -10, reviewedDate |-> TsOut],
      [uniqueName |-> "Alice", vote |-> 5],
      [uniqueName |-> "Alice", vote |-> 5, reviewedDate |-> None],
      [uniqueName |-> "Alice", vote |-> 5, reviewedDate |-> "not-a-date"],
      [uniqueName |-> "Alice", vote |-> -5, reviewedDate |-> TsIn],
      [uniqueName |-> "Eve", vote |-> 5, reviewedDate |-> TsIn],
      [reviewedDate |-> TsIn] }

\* sequences over S of length at most n
RECURSIVE SeqsUpTo(_, _)
SeqsUpTo(S, n) ==
    IF n = 0 THEN { <<>> }
    ELSE LET shorter == SeqsUpTo(S, n - 1)
         IN  shorter \cup { Append(s, x) : s \in { t \in shorter : Len(t) = n - 1 }, x \in S }

\* the pull request with id `id`: with or without the optional keys
PullRequest(id, created, revs) ==
    LET base == [pullRequestId |-> id, title |-> "t",
                 createdBy |-> [displayName |-> "dev"]]
        withDate == IF created = "missing" THEN base
                    ELSE base @@ [creationDate |-> created]
    IN  IF revs = <<>> THEN withDate ELSE withDate @@ [reviewers |-> revs]

\* creationDate of the pull requests of the runs
CreationDates == {CreatedIn, CreatedOut}

\* the reviewer lists of the pull requests of the runs
ReviewerLists == SeqsUpTo(ReviewerPool, MaxEntries)

\* the lists of exactly m pull requests with exactly n reviewer entries in all
RECURSIVE PRLists(_, _)
PRLists(m, n) ==
    IF m = 0 THEN (IF n = 0 THEN { <<>> } ELSE {})
    ELSE UNION {
            { <<PullRequest(0, c, r)>> \o rest :
                c \in (IF r = <<>> THEN {CreatedIn} ELSE CreationDates),
                rest \in PRLists(m - 1, n - Len(r)) } :
            r \in { x \in ReviewerLists : Len(x) <= n } }

\* what a repository can hold, by its numbers of pull requests and of
\* reviewer entries
Contents == [m \in 0..MaxPRs |-> [n \in 0..MaxEntries |-> PRLists(m, n)]]

\* pull request ids are unique over the project
WithIds(content, repoNo) ==
    [i \in 1..Len(content) |-> [content[i] EXCEPT !.pullRequestId = 100 * repoNo + i]]

\* the repository of the pagination runs: n pull requests without reviewers
BigRepo(n) == [i \in 1..n |-> PullRequest(i, CreatedIn, <<>>)]

\* ------------------------------------------------------------------- state
VARIABLES
    pc,               \* where main() is: start, loop, fetch, extract, report, chart, done, failed
    error,            \* the exception that ended the run, "" when none
    PAT,              \* the credential (module global PAT)
    date_mode,        \* args.date_mode
    requests,         \* the HTTP requests sent so far, with the status answered
    repos,            \* get_repo_map: the decoded repository listing
    repo_map,         \* main: name/id of the selected repositories, in dict order
    repo_i,           \* main: index of the repository the loop is at
    source,           \* data source: the pull requests of the repository being fetched
    skip,             \* get_all_prs: skip
    all_prs,          \* get_all_prs: all_prs
    prs,              \* main: prs of the current repository
    pos,              \* main: <<index of pr in prs, index of reviewer in pr.reviewers>>
    rows,             \* main: rows (NormalizedReviewRecords)
    raw_rows,         \* main: raw_rows (RawAuditRecords)
    reviewer_summary, \* main: reviewer_summary
    debug_stats,      \* main: debug_stats
    writes,           \* the files written, in order
    seen,             \* history: every reviewer entry of every fetched pull request
    log               \* history: outcome and check date of every processed entry

vars == <<pc, error, PAT, date_mode, requests, repos, repo_map, repo_i, source, skip,
          all_prs, prs, pos, rows, raw_rows, reviewer_summary, debug_stats, writes,
          seen, log>>

\* ---------------------------------------------------------- pure parts
Range(f) == { f[i] : i \in DOMAIN f }

\* main: reviewers = [r.lower() for r in args.reviewers]
reviewers == [i \in 1..Len(args_reviewers) |-> Lower(args_reviewers[i])]

\* a faulty variant of auth_header: the credential is never checked
\* (as in src/fetch_reviewed_prs.py)
auth_header_unchecked(pat) == TRUE

\* auth_header: TRUE when it returns a header, FALSE when it raises
auth_header(pat) == ~(pat = None \/ pat = "")

\* get_repo_map: the dict comprehension, in insertion order
repo_map_of(listing) == SelectSeq(listing, LAMBDA repo : repo.name \in Range(args_repos))

\* the answer of a well-behaved source to listPullRequests(skip, top)
Page(content, sk, tp) ==
    IF sk >= Len(content) THEN <<>>
    ELSE SubSeq(content, sk + 1, IF sk + tp < Len(content) THEN sk + tp ELSE Len(content))

\* a faulty variant of get_all_prs: the next page overlaps the last item of this one
next_skip_overlap(sk, tp) == sk + tp - 1

\* get_all_prs: skip += top
next_skip(sk, tp) == sk + tp

\* get_all_prs: len(batch) < top
last_page(batch, tp) == Len(batch) < tp

\* email = reviewer.get("uniqueName", "").lower()
email_of(reviewer) == Lower(Get(reviewer, "uniqueName", ""))

\* vote = reviewer.get("vote", 0)
vote_of(reviewer) == Get(reviewer, "vote", 0)

\* the record appended to raw_rows
raw_row(repo_name, pr, reviewer) ==
    [Repository |-> repo_name,
     PR_ID |-> pr.pullRequestId,
     Reviewer |-> email_of(reviewer),
     Vote |-> vote_of(reviewer),
     Reviewed_Date |-> Get(reviewer, "reviewedDate", None),
     PR_Created_Date |-> Get(pr, "creationDate", None)]

\* email in reviewers
reviewer_passes(email) == email \in Range(reviewers)

\* vote in (10, 5, -10)
vote_passes(vote) == vote \in {10, 5, -10}

\* decision = "Approved" if vote > 0 else "Rejected"
decision_of(vote) == IF vote > 0 THEN "Approved" ELSE "Rejected"

\* check_date
check_date_of(pr, reviewer, mode) ==
    IF mode = "creation"
    THEN parse_date(Get(pr, "creationDate", None))
    ELSE parse_date(Get(reviewer, "reviewedDate", Get(pr, "creationDate", None)))

\* a faulty variant of the filters: the vote filter runs before the reviewer filter
outcome_of_vote_first(pr, reviewer, mode) ==
    IF ~vote_passes(vote_of(reviewer)) THEN "filtered_vote"
    ELSE IF ~reviewer_passes(email_of(reviewer)) THEN "filtered_reviewer"
    ELSE IF ~date_in_range(check_date_of(pr, reviewer, mode), args_start, args_end)
         THEN "filtered_date"
    ELSE "rows_added"

\* the first filter the entry fails, or "rows_added"
outcome_of(pr, reviewer, mode) ==
    IF ~reviewer_passes(email_of(reviewer)) THEN "filtered_reviewer"
    ELSE IF ~vote_passes(vote_of(reviewer)) THEN "filtered_vote"
    ELSE IF ~date_in_range(check_date_of(pr, reviewer, mode), args_start, args_end)
         THEN "filtered_date"
    ELSE "rows_added"

\* the record appended to rows
row(repo_name, pr, reviewer, mode) ==
    LET check_date == check_date_of(pr, reviewer, mode)
    IN  [Repository |-> repo_name,
         PR_ID |-> pr.pullRequestId,
         Title |-> pr.title,
         Reviewer |-> email_of(reviewer),
         Decision |-> decision_of(vote_of(reviewer)),
         Decision_Date |-> check_date,
         PR_Created_Date |-> Get(pr, "creationDate", None),
         Created_By |-> pr.createdBy.displayName,
         Month |-> strftime_Ym(check_date)]

\* defaultdict(int): d[k] += n
Incr(d, k, n) == IF k \in DOMAIN d THEN [d EXCEPT ![k] = @ + n] ELSE d @@ (k :> n)

\* a faulty variant of reviewer_summary: every configured reviewer starts with zero counts
summary_preset == [r \in Range(reviewers) |-> [Approved |-> 0, Rejected |-> 0]]

\* reviewer_summary = defaultdict(lambda: {"Approved": 0, "Rejected": 0})
summary_empty == [r \in {} |-> [Approved |-> 0, Rejected |-> 0]]

\* a faulty variant of the increment: every decision is counted as Approved
summary_incr_approved(summary, email, decision) ==
    LET old == Get(summary, email, [Approved |-> 0, Rejected |-> 0])
        new == [old EXCEPT !.Approved = @ + 1]
    IN  [r \in DOMAIN summary \cup {email} |-> IF r = email THEN new ELSE summary[r]]

\* reviewer_summary[email][decision] += 1
summary_incr(summary, email, decision) ==
    LET old == Get(summary, email, [Approved |-> 0, Rejected |-> 0])
        new == [old EXCEPT ![decision] = @ + 1]
    IN  [r \in DOMAIN summary \cup {email} |-> IF r = email THEN new ELSE summary[r]]

\* the position of the first reviewer entry at or after pull request i,
\* <<0, 0>> when the remaining pull requests have none
first_entry(list, i) ==
    LET with == { k \in i..Len(list) : Len(Get(list[k], "reviewers", <<>>)) > 0 }
    IN  IF with = {} THEN <<0, 0>>
        ELSE <<CHOOSE k \in with : \A l \in with : k <= l, 1>>

\* the position of the reviewer entry the loops reach after position p
next_entry(list, p) ==
    IF p[2] < Len(list[p[1]].reviewers) THEN <<p[1], p[2] + 1>>
    ELSE first_entry(list, p[1] + 1)

\* every reviewer entry of the pull requests of `list`, ordered by pull
\* request, then by place in the pull request's reviewers
entries_of(repo_name, list) ==
    LET places == UNION { { <<i, j>> : j \in 1..Len(Get(list[i], "reviewers", <<>>)) } :
                          i \in 1..Len(list) }
        before(p, q) == p[1] < q[1] \/ (p[1] = q[1] /\ p[2] <= q[2])
        nth(k) == CHOOSE p \in places : Cardinality({ q \in places : before(q, p) }) = k
    IN  [k \in 1..Cardinality(places) |->
            [repo |-> repo_name, pr |-> list[nth(k)[1]],
             reviewer |-> list[nth(k)[1]].reviewers[nth(k)[2]]]]

\* df.groupby(["Month", "Decision"]).size().unstack(fill_value=0): one row
\* per month present, one column per decision present, absent combinations 0
monthly_of(rws) ==
    [k \in { rws[i].Month : i \in DOMAIN rws } |->
        [d \in { rws[i].Decision : i \in DOMAIN rws } |->
            Cardinality({ i \in DOMAIN rws : rws[i].Month = k /\ rws[i].Decision = d })]]

\* the calendar day of a datetime (.dt.date)
dt_date(date) == SubSeq(date, 1, 3)

\* df.groupby([df["Decision Date"].dt.date, "Decision"]).size().unstack(fill_value=0)
daily_of(rws) ==
    [k \in { dt_date(rws[i].Decision_Date) : i \in DOMAIN rws } |->
        [d \in { rws[i].Decision : i \in DOMAIN rws } |->
            Cardinality({ i \in DOMAIN rws :
                dt_date(rws[i].Decision_Date) = k /\ rws[i].Decision = d })]]

\* a faulty variant of the report: the workbook is written whether or not rows is empty
\* (as in src/fetch_reviewed_prs.py)
no_data_never(rws) == FALSE

\* if not rows: return
no_data(rws) == rws = <<>>

\* the workbook: its four sheets, in the order written
workbook(rws, raws, summary) ==
    [file |-> "reviewed_prs_report.xlsx",
     sheets |-> << [sheet_name |-> "All PRs", data |-> rws],
                   [sheet_name |-> "Monthly Summary", data |-> monthly_of(rws)],
                   [sheet_name |-> "Reviewer Summary", data |-> summary],
                   [sheet_name |-> "Raw API Data", data |-> raws] >>]

\* a faulty variant of the raw audit trail: the record is appended after the reviewer filter
raw_rows_after_filter(raws, repo_name, pr, reviewer) ==
    IF reviewer_passes(email_of(reviewer))
    THEN Append(raws, raw_row(repo_name, pr, reviewer)) ELSE raws

\* raw_rows.append({...}), before any filter
raw_rows_append(raws, repo_name, pr, reviewer) ==
    Append(raws, raw_row(repo_name, pr, reviewer))

\* ----------------------------------------------------------------- actions
Request(op, repo_id, sk, status) == [op |-> op, repo |-> repo_id, skip |-> sk, status |-> status]

Fail(why) == /\ pc' = "failed"
             /\ error' = why

\* main -> get_repo_map (lines 65-81) and the initialisations of lines 109-112
GetRepoMap ==
    /\ pc = "start"
    /\ IF ~auth_header(PAT)
       THEN /\ Fail("RuntimeError: AZURE_DEVOPS_PAT environment variable not set")
            /\ UNCHANGED <<requests, repos, repo_map, repo_i>>
       ELSE \E status \in Statuses, body \in Bodies :
            /\ status = 200 => body = "value"
            /\ requests' = Append(requests, Request("listRepositories", "", 0, status))
            /\ IF body = "not_json"
               THEN /\ Fail("JSONDecodeError")
                    /\ UNCHANGED <<repos, repo_map, repo_i>>
               ELSE IF body = "no_value"
               THEN /\ Fail("KeyError: value")
                    /\ UNCHANGED <<repos, repo_map, repo_i>>
               ELSE \E listing \in RepoListings :
                    /\ repos' = listing
                    /\ repo_map' = repo_map_of(listing)
                    /\ IF repo_map_of(listing) = <<>>
                       THEN /\ Fail("RuntimeError: No matching repositories found")
                            /\ UNCHANGED repo_i
                       ELSE /\ pc' = "loop"
                            /\ repo_i' = 1
                            /\ UNCHANGED error
    /\ UNCHANGED <<PAT, date_mode, source, skip, all_prs, prs, pos, rows, raw_rows,
                   reviewer_summary, debug_stats, writes, seen, log>>

\* head of `for repo_name, repo_id in repo_map.items()` (line 114) and the
\* entry of get_all_prs (line 85); the data source's content of the
\* repository is fixed here
NextRepo ==
    /\ pc = "loop"
    /\ IF repo_i <= Len(repo_map)
       THEN /\ \E m \in 0..(MaxPRs - Get(debug_stats, "total_prs", 0)),
                   n \in 0..(MaxEntries - Len(seen)) :
                \E content \in Contents[m][n] :
                    source' = WithIds(content, repo_i)
            /\ skip' = 0
            /\ all_prs' = <<>>
            /\ pc' = "fetch"
       ELSE /\ pc' = "report"
            /\ UNCHANGED <<source, skip, all_prs>>
    /\ UNCHANGED <<error, PAT, date_mode, requests, repos, repo_map, repo_i, prs, pos,
                   rows, raw_rows, reviewer_summary, debug_stats, writes, seen, log>>

\* one pass of the `while True` of get_all_prs (lines 86-99); on the last
\* page the return (line 100), line 116 and the entry of the loops of
\* lines 118-119
FetchPage ==
    /\ pc = "fetch"
    /\ IF ~auth_header(PAT)
       THEN /\ Fail("RuntimeError: AZURE_DEVOPS_PAT environment variable not set")
            /\ UNCHANGED <<requests, skip, all_prs, prs, pos, repo_i, debug_stats, seen>>
       ELSE \E status \in Statuses :
            /\ requests' = Append(requests,
                   Request("listPullRequests", repo_map[repo_i].id, skip, status))
            /\ IF status # 200
               THEN /\ Fail("HTTPError")
                    /\ UNCHANGED <<skip, all_prs, prs, pos, repo_i, debug_stats, seen>>
               ELSE LET batch == Page(source, skip, top)
                        all == all_prs \o batch
                    IN  /\ all_prs' = all
                        /\ IF last_page(batch, top)
                           THEN /\ prs' = all
                                /\ debug_stats' = Incr(debug_stats, "total_prs", Len(all))
                                /\ seen' = seen \o entries_of(repo_map[repo_i].name, all)
                                /\ pos' = first_entry(all, 1)
                                /\ IF first_entry(all, 1) = <<0, 0>>
                                   THEN pc' = "loop" /\ repo_i' = repo_i + 1
                                   ELSE pc' = "extract" /\ repo_i' = repo_i
                                /\ UNCHANGED <<skip, error>>
                           ELSE /\ skip' = next_skip(skip, top)
                                /\ UNCHANGED <<pc, error, prs, pos, repo_i, debug_stats, seen>>
    /\ UNCHANGED <<PAT, date_mode, repos, repo_map, source, rows, raw_rows,
                   reviewer_summary, writes, log>>

\* one pass of the body of `for reviewer in pr.get("reviewers", [])`
\* (lines 120-169), and the step of the loops to the next entry
ProcessEntry ==
    /\ pc = "extract"
    /\ LET repo_name == repo_map[repo_i].name
           pr == prs[pos[1]]
           reviewer == pr.reviewers[pos[2]]
           email == email_of(reviewer)
           decision == decision_of(vote_of(reviewer))
           outcome == outcome_of(pr, reviewer, date_mode)
           reached_date == outcome \in {"filtered_date", "rows_added"}
           counted == Incr(debug_stats, "total_reviewer_entries", 1)
       IN  /\ raw_rows' = raw_rows_append(raw_rows, repo_name, pr, reviewer)
           /\ debug_stats' = Incr(counted, outcome, 1)
           /\ IF outcome = "rows_added"
              THEN /\ reviewer_summary' = summary_incr(reviewer_summary, email, decision)
                   /\ rows' = Append(rows, row(repo_name, pr, reviewer, date_mode))
              ELSE UNCHANGED <<reviewer_summary, rows>>
           /\ log' = Append(log, [repo |-> repo_name, pr |-> pr, reviewer |-> reviewer,
                                  outcome |-> outcome,
                                  check_date |-> IF reached_date
                                                 THEN check_date_of(pr, reviewer, date_mode)
                                                 ELSE NoDate])
           /\ pos' = next_entry(prs, pos)
           /\ IF next_entry(prs, pos) = <<0, 0>>
              THEN pc' = "loop" /\ repo_i' = repo_i + 1
              ELSE pc' = "extract" /\ repo_i' = repo_i
    /\ UNCHANGED <<error, PAT, date_mode, requests, repos, repo_map, source, skip,
                   all_prs, prs, writes, seen>>

\* lines 177-205: the early return on no data, else the workbook
Report ==
    /\ pc = "report"
    /\ IF no_data(rows)
       THEN /\ pc' = "done"
            /\ UNCHANGED writes
       ELSE /\ writes' = Append(writes, workbook(rows, raw_rows, reviewer_summary))
            /\ pc' = "chart"
    /\ UNCHANGED <<error, PAT, date_mode, requests, repos, repo_map, repo_i, source, skip,
                   all_prs, prs, pos, rows, raw_rows, reviewer_summary, debug_stats,
                   seen, log>>

\* lines 207-227: the chart, when the daily rollup is not empty
Chart ==
    /\ pc = "chart"
    /\ IF DOMAIN daily_of(rows) # {}
       THEN writes' = Append(writes, [file |-> "daily_approval_graph.png",
                                      data |-> daily_of(rows)])
       ELSE UNCHANGED writes
    /\ pc' = "done"
    /\ UNCHANGED <<error, PAT, date_mode, requests, repos, repo_map, repo_i, source, skip,
                   all_prs, prs, pos, rows, raw_rows, reviewer_summary, debug_stats,
                   seen, log>>

\* ---------------------------------------------------------- specifications
\* the state when main() is entered
Init ==
    /\ pc = "start"
    /\ error = ""
    /\ PAT \in PATs
    /\ date_mode \in DateModes
    /\ requests = <<>>
    /\ repos = <<>>
    /\ repo_map = <<>>
    /\ repo_i = 0
    /\ source = <<>>
    /\ skip = 0
    /\ all_prs = <<>>
    /\ prs = <<>>
    /\ pos = <<0, 0>>
    /\ rows = <<>>
    /\ raw_rows = <<>>
    /\ reviewer_summary = summary_empty
    /\ debug_stats = <<>>
    /\ writes = <<>>
    /\ seen = <<>>
    /\ log = <<>>

Next == GetRepoMap \/ NextRepo \/ FetchPage \/ ProcessEntry \/ Report \/ Chart

Spec == Init /\ [][Next]_vars

\* get_all_prs entered for a repository of 0..MaxN pull requests
InitPages ==
    /\ pc = "fetch"
    /\ error = ""
    /\ PAT = "token"
    /\ date_mode = "review"
    /\ requests = <<>>
    /\ repos = << [name |-> "r1", id |-> "id-r1"] >>
    /\ repo_map = repos
    /\ repo_i = 1
    /\ \E n \in 0..MaxN : source = BigRepo(n)
    /\ skip = 0
    /\ all_prs = <<>>
    /\ prs = <<>>
    /\ pos = <<0, 0>>
    /\ rows = <<>>
    /\ raw_rows = <<>>
    /\ reviewer_summary = summary_empty
    /\ debug_stats = <<>>
    /\ writes = <<>>
    /\ seen = <<>>
    /\ log = <<>>

NextPages == FetchPage

SpecPages == InitPages /\ [][NextPages]_vars

\* ------------------------------------------------------------------ claims
\* the decimal number a string of digits denotes
RECURSIVE DecimalOf(_)
DecimalOf(codes) ==
    IF codes = <<>> THEN 0
    ELSE DecimalOf(SubSeq(codes, 1, Len(codes) - 1)) * 10 + (codes[Len(codes)] - 48)

\* the calendar day <<year, month, day>> of a "YYYY-MM-DD" string
DayOf(str) == <<DecimalOf(SubSeq(str, 1, 4)), DecimalOf(SubSeq(str, 6, 7)),
                DecimalOf(SubSeq(str, 9, 10))>>

\* calendar order on days
DayLeq(a, b) ==
    \/ a[1] < b[1]
    \/ a[1] = b[1] /\ a[2] < b[2]
    \/ a[1] = b[1] /\ a[2] = b[2] /\ a[3] <= b[3]

Configured == { Lower(args_reviewers[i]) : i \in DOMAIN args_reviewers }
Stat(k) == Get(debug_stats, k, 0)
AfterLoop == pc \in {"report", "chart", "done"}
Added == SelectSeq(log, LAMBDA e : e.outcome = "rows_added")
NameOf(e) == Get(e.reviewer, "uniqueName", "")
VoteOf(e) == Get(e.reviewer, "vote", 0)

\* C1: every record of rows comes from a reviewer entry that passed the
\* three filters: its Reviewer is the lower-cased uniqueName and a configured
\* reviewer; the vote is 10, 5 or -10 and the Decision is Approved exactly
\* for 10 and 5, Rejected exactly for -10; the check date is not null and
\* its calendar day lies in [start, end]; Month is the YYYY-MM of that date.
C1_RowsPassAllFilters ==
    /\ Len(rows) = Len(Added)
    /\ \A k \in DOMAIN rows :
        LET r == rows[k]
            e == Added[k]
        IN  /\ r.Repository = e.repo
            /\ r.PR_ID = e.pr.pullRequestId
            /\ r.Reviewer = Lower(NameOf(e))
            /\ r.Reviewer \in Configured
            /\ VoteOf(e) \in {10, 5, -10}
            /\ (r.Decision = "Approved") <=> (VoteOf(e) \in {10, 5})
            /\ (r.Decision = "Rejected") <=> (VoteOf(e) = -10)
            /\ r.Decision_Date # NoDate
            /\ r.Decision_Date = e.check_date
            /\ DayLeq(DayOf(args_start), SubSeq(r.Decision_Date, 1, 3))
            /\ DayLeq(SubSeq(r.Decision_Date, 1, 3), DayOf(args_end))
            /\ Len(r.Month) = 7
            /\ DecimalOf(SubSeq(r.Month, 1, 4)) = r.Decision_Date[1]
            /\ r.Month[5] = 45
            /\ DecimalOf(SubSeq(r.Month, 6, 7)) = r.Decision_Date[2]

\* a record was produced next to an entry that a filter dropped
C1_Witness ==
    /\ Len(rows) = 1
    /\ Len(log) = 2
    /\ rows[1].Decision = "Rejected"

\* C2: one raw record per reviewer entry, appended before any filter: the
\* raw records are, in order, the entries of the fetched pull requests that
\* the loop has reached; after the loop there are as many raw records as
\* entries seen; every record of rows has a raw record with the same
\* repository, PR id and reviewer.
C2_RawAuditTrail ==
    /\ Len(raw_rows) = Len(log)
    /\ Len(raw_rows) <= Len(seen)
    /\ \A k \in DOMAIN raw_rows :
        /\ raw_rows[k].Repository = seen[k].repo
        /\ raw_rows[k].PR_ID = seen[k].pr.pullRequestId
        /\ raw_rows[k].Reviewer = Lower(NameOf(seen[k]))
        /\ raw_rows[k].Vote = VoteOf(seen[k])
        /\ raw_rows[k].Reviewed_Date = Get(seen[k].reviewer, "reviewedDate", None)
    /\ (AfterLoop \/ pc = "loop") => Len(raw_rows) = Len(seen)
    /\ \A k \in DOMAIN rows : \E j \in DOMAIN raw_rows :
        /\ raw_rows[j].Repository = rows[k].Repository
        /\ raw_rows[j].PR_ID = rows[k].PR_ID
        /\ raw_rows[j].Reviewer = rows[k].Reviewer

\* the loop is over, and the raw records hold an entry of an unconfigured
\* reviewer and an entry whose timestamp does not parse
C2_Witness ==
    /\ AfterLoop
    /\ Len(raw_rows) = 2
    /\ rows = <<>>
    /\ \E k \in DOMAIN raw_rows : raw_rows[k].Reviewed_Date = "not-a-date"
    /\ \E k \in DOMAIN raw_rows : raw_rows[k].Reviewer \notin Configured

\* the reviewed timestamp of an entry is absent: no key, or null
ReviewedAbsent(e) == Get(e.reviewer, "reviewedDate", None) = None

\* C3: the check date is the PR's creation timestamp in date-mode creation;
\* in date-mode review it is the entry's reviewed timestamp, and the PR's
\* creation timestamp when the reviewed timestamp is absent (key missing or
\* null); so a configured reviewer's entry with vote 5, no reviewed
\* timestamp, date-mode review and a creation date in range is in rows.
C3_CheckDateFallback ==
    \A k \in DOMAIN log :
        LET e == log[k]
            created == parse_date(Get(e.pr, "creationDate", None))
            expected == IF date_mode = "creation" \/ ReviewedAbsent(e)
                        THEN created
                        ELSE parse_date(e.reviewer.reviewedDate)
        IN  /\ e.outcome \in {"filtered_date", "rows_added"} => e.check_date = expected
            /\ ( /\ Lower(NameOf(e)) \in Configured
                 /\ VoteOf(e) = 5
                 /\ ReviewedAbsent(e)
                 /\ date_mode = "review"
                 /\ created # NoDate
                 /\ DayLeq(DayOf(args_start), SubSeq(created, 1, 3))
                 /\ DayLeq(SubSeq(created, 1, 3), DayOf(args_end)) )
               => e.outcome = "rows_added"

WorkbookSheets == <<"All PRs", "Monthly Summary", "Reviewer Summary", "Raw API Data">>
IsWorkbook(w) ==
    /\ w.file = "reviewed_prs_report.xlsx"
    /\ [i \in DOMAIN w.sheets |-> w.sheets[i].sheet_name] = WorkbookSheets
IsChart(w) == w.file = "daily_approval_graph.png"

\* C4: nothing is written when rows is empty; otherwise the workbook is
\* written with its four sheets, and the chart only after it and only for a
\* non-empty daily rollup; nothing is written before every selected
\* repository has been fetched and processed.
C4_AllOrNothing ==
    /\ pc \in {"start", "loop", "fetch", "extract", "report", "failed"} => writes = <<>>
    /\ writes # <<>> =>
        /\ rows # <<>>
        /\ IsWorkbook(writes[1])
        /\ writes[1].sheets[1].data = rows
        /\ writes[1].sheets[4].data = raw_rows
        /\ Len(writes) <= 2
        /\ repo_i = Len(repo_map) + 1
        /\ \A i \in DOMAIN repo_map : \E q \in DOMAIN requests :
            /\ requests[q].op = "listPullRequests"
            /\ requests[q].repo = repo_map[i].id
            /\ requests[q].status = 200
        /\ Len(log) = Len(seen)
    /\ Len(writes) = 2 =>
        /\ IsChart(writes[2])
        /\ pc = "done"
        /\ DOMAIN writes[2].data # {}
    /\ (pc = "done" /\ rows = <<>>) => (writes = <<>> /\ error = "")
    /\ (pc = "chart" /\ rows # <<>>) => Len(writes) = 1
    /\ (pc = "done" /\ rows # <<>>) => Len(writes) = 2

\* a run that ended with the workbook and the chart written
C4_Witness ==
    /\ pc = "done"
    /\ Len(writes) = 2
    /\ Len(repo_map) = 2

\* C5: a request answered with a non-success status is the last request of
\* the run, the run has failed there, and nothing is written.
C5_TransportErrorFatal ==
    \A i \in DOMAIN requests :
        requests[i].status # 200 =>
            /\ i = Len(requests)
            /\ pc = "failed"
            /\ writes = <<>>

\* the listing was decoded and names none of the configured repositories
NoMatch ==
    /\ requests # <<>>
    /\ error \notin {"JSONDecodeError", "KeyError: value"}
    /\ \A i \in DOMAIN repos : repos[i].name \notin Range(args_repos)

\* C6: without a credential no request is sent; when no configured
\* repository is in the listing no pull-request page is fetched; in both
\* cases the run fails and nothing is written.
C6_ConfigErrorsFatal ==
    /\ (PAT = None \/ PAT = "") =>
        /\ requests = <<>>
        /\ writes = <<>>
        /\ pc \in {"start", "failed"}
        /\ pc = "failed" => error = "RuntimeError: AZURE_DEVOPS_PAT environment variable not set"
    /\ NoMatch =>
        /\ pc = "failed"
        /\ error = "RuntimeError: No matching repositories found"
        /\ Len(requests) = 1
        /\ requests[1].op = "listRepositories"
        /\ writes = <<>>

\* the listing named a repository, none of them configured, and the run failed
C6_Witness ==
    /\ NoMatch
    /\ Len(repos) = 1
    /\ pc = "failed"

\* C7: against a well-behaved source get_all_prs asks for skip = 0, top,
\* 2*top, ..., stops at the first page shorter than top, after
\* floor(N/top) + 1 requests, and returns the N pull requests once each, in
\* the source's order.
C7_Pagination ==
    LET N == Len(source)
        answered == \A i \in DOMAIN requests : requests[i].status = 200
    IN  /\ \A i \in DOMAIN requests :
            /\ requests[i].op = "listPullRequests"
            /\ requests[i].skip = (i - 1) * top
        /\ Len(requests) <= (N \div top) + 1
        /\ (pc = "fetch" /\ answered) =>
            /\ Len(all_prs) = Len(requests) * top
            /\ Len(all_prs) <= N
            /\ all_prs = SubSeq(source, 1, Len(all_prs))
        /\ pc = "failed" => ~answered
        /\ pc \notin {"fetch", "failed"} =>
            /\ answered
            /\ Len(requests) = (N \div top) + 1
            /\ prs = source
            /\ \A i \in DOMAIN prs : prs[i].pullRequestId = i

\* get_all_prs returned a repository of two full pages after a third, empty page
C7_Witness ==
    /\ pc \notin {"fetch", "failed"}
    /\ Len(source) = 2 * top
    /\ Len(requests) = 3
    /\ Len(prs) = 2 * top

\* C8 as stated: whenever a report is written, the reviewer rollup has a row
\* for every configured reviewer, with zero counts for one without a record.
C8_EveryConfiguredReviewerHasRow ==
    writes # <<>> =>
        \A r \in Configured : r \in DOMAIN writes[1].sheets[3].data

\* C8 as amended: whenever a report is written, the reviewer rollup has a
\* row for exactly the reviewers with at least one record of rows; a
\* configured reviewer without a record has no row, and no row has zero
\* counts.
C8_RollupRowsOnlyForMatched ==
    writes # <<>> =>
        LET sheet == writes[1].sheets[3].data
        IN  /\ DOMAIN sheet = { rows[k].Reviewer : k \in DOMAIN rows }
            /\ \A r \in DOMAIN sheet : sheet[r].Approved + sheet[r].Rejected >= 1
            /\ \A r \in Configured :
                (\A k \in DOMAIN rows : rows[k].Reviewer # r) => r \notin DOMAIN sheet

\* a report was written and a configured reviewer has no row in the rollup
C8_Witness ==
    /\ writes # <<>>
    /\ "alice" \in DOMAIN writes[1].sheets[3].data
    /\ "bob" \notin DOMAIN writes[1].sheets[3].data

\* C9: the ReviewerSummary agrees with rows: each count is the number of
\* records with that reviewer and decision, only reviewers with a record
\* have an entry, and the counts add up to the number of records.
RECURSIVE SumCounts(_, _)
SumCounts(summary, names) ==
    IF names = {} THEN 0
    ELSE LET r == CHOOSE x \in names : TRUE
         IN  summary[r].Approved + summary[r].Rejected + SumCounts(summary, names \ {r})

C9_SummaryAgrees ==
    /\ DOMAIN reviewer_summary = { rows[k].Reviewer : k \in DOMAIN rows }
    /\ \A r \in DOMAIN reviewer_summary : \A d \in {"Approved", "Rejected"} :
        reviewer_summary[r][d] =
            Cardinality({ k \in DOMAIN rows : rows[k].Reviewer = r /\ rows[k].Decision = d })
    /\ SumCounts(reviewer_summary, DOMAIN reviewer_summary) = Len(rows)

\* two reviewers have a record each, one of them a rejection
C9_Witness ==
    /\ Len(rows) = 2
    /\ DOMAIN reviewer_summary = {"alice", "bob"}
    /\ reviewer_summary["bob"].Rejected = 1
    /\ reviewer_summary["alice"].Approved = 1

\* the entries the loop has processed, as the data source returned them
Processed == SubSeq(seen, 1, Len(log))
FailsReviewer(e) == Lower(NameOf(e)) \notin Configured
FailsVote(e) == VoteOf(e) \notin {10, 5, -10}

\* C10: total_reviewer_entries = filtered_reviewer + filtered_vote +
\* filtered_date + rows_added, rows_added is the number of rows and
\* total_reviewer_entries the number of raw records; an entry is counted
\* once, under the first filter it fails in the order reviewer, vote, date.
C10_FunnelConserved ==
    /\ Stat("total_reviewer_entries") =
         Stat("filtered_reviewer") + Stat("filtered_vote") + Stat("filtered_date")
         + Stat("rows_added")
    /\ Stat("rows_added") = Len(rows)
    /\ Stat("total_reviewer_entries") = Len(raw_rows)
    /\ Len(log) <= Len(seen)
    /\ Stat("filtered_reviewer") =
         Cardinality({ k \in DOMAIN Processed : FailsReviewer(Processed[k]) })
    /\ Stat("filtered_vote") =
         Cardinality({ k \in DOMAIN Processed :
             ~FailsReviewer(Processed[k]) /\ FailsVote(Processed[k]) })
    /\ Stat("filtered_date") =
         Cardinality({ k \in DOMAIN Processed :
             ~FailsReviewer(Processed[k]) /\ ~FailsVote(Processed[k]) }) - Len(rows)

\* an entry of an unconfigured reviewer with an unrecognized vote was
\* counted, next to an entry the date filter dropped
C10_Witness ==
    /\ Len(log) = 2
    /\ \E k \in DOMAIN Processed : FailsReviewer(Processed[k]) /\ FailsVote(Processed[k])
    /\ Stat("filtered_reviewer") = 1
    /\ Stat("filtered_vote") = 0
    /\ Stat("filtered_date") = 1

====
